---- MODULE Spec2Model ----
(***************************************************************************)
(* A model of src/main.py: the successor search over the read database     *)
(* (Searcher.find_successors), the loop-closure test of the supercontig    *)
(* collection (Supercontigs.is_overlapping_contig) and the branching       *)
(* extension loop (Enhancer.start) with its SIGINT stop flag.              *)
(*                                                                         *)
(* A Python string is a sequence of one-character strings. A contig is an  *)
(* object: the heap maps an object id to its {status, content} dict, and   *)
(* the stack and every supercontig's content list hold ids, so that two    *)
(* references to one object and two equal objects stay distinct.           *)
(***************************************************************************)
EXTENDS Integers, Sequences, FiniteSets, TLC

\* ------------------------------------------------------------- statuses
OPEN == "open"
OVERLAPPING == "overlapping"
TOO_LONG == "too_long"
STUCK == "stuck"
CLOSED == "closed"

\* ------------------------------------------------------ strings of Python
\* The code point of a character (Python compares str by code points).
Ord(c) ==
  CASE c = "#" -> 35
    [] c = "A" -> 65
    [] c = "C" -> 67
    [] c = "G" -> 71
    [] c = "N" -> 78
    [] c = "T" -> 84
    [] c = "a" -> 97
    [] c = "c" -> 99
    [] c = "g" -> 103
    [] c = "t" -> 116

\* Case folding of re.IGNORECASE on ASCII letters.
Upper(c) ==
  CASE c = "a" -> "A"
    [] c = "c" -> "C"
    [] c = "g" -> "G"
    [] c = "t" -> "T"
    [] OTHER -> c

\* The regex "." : any character but a newline.
Dot(c) == c # "\n"

\* The character class [ACGT] of the overlap pattern (no IGNORECASE there).
ACGT == {"A", "C", "G", "T"}

\* Python's a < b on str: lexicographic by code point, a proper prefix first.
StrLess(a, b) ==
  \E k \in 1..(Len(b)) :
     /\ \A j \in 1..(k-1) : j <= Len(a) /\ a[j] = b[j]
     /\ k - 1 <= Len(a)
     /\ (k > Len(a) \/ Ord(a[k]) < Ord(b[k]))

\* s[-k:] of Python for k >= 0: the last k characters, the whole string when
\* k = 0 (s[-0:] is s[0:]) or k >= len(s).
Slice(s, k) ==
  IF k = 0 \/ k >= Len(s) THEN s ELSE SubSeq(s, Len(s) - k + 1, Len(s))

\* s[:k] of Python for k >= 0.
Prefix(s, k) == IF k >= Len(s) THEN s ELSE SubSeq(s, 1, k)

\* ----------------------------------------------------------- Optional
None == [none |-> TRUE]
Some(v) == [none |-> FALSE, value |-> v]

\* ------------------------------------------------ Searcher.find_successors
\* The pattern suffix + '(.{n})' matches at position pos of read.
MatchAt(suffix, n, read, pos) ==
  /\ pos + Len(suffix) + n - 1 <= Len(read)
  /\ \A k \in 1..Len(suffix) : Upper(read[pos + k - 1]) = Upper(suffix[k])
  /\ \A k \in 1..n : Dot(read[pos + Len(suffix) + k - 1])

\* pattern.findall(read): the leftmost match from pos on, its group, and the
\* scan goes on behind the whole match (behind the next character when the
\* match is empty).
RECURSIVE findall(_, _, _, _)
findall(suffix, n, read, pos) ==
  IF pos + Len(suffix) + n - 1 > Len(read) THEN <<>>
  ELSE IF MatchAt(suffix, n, read, pos)
       THEN <<SubSeq(read, pos + Len(suffix), pos + Len(suffix) + n - 1)>>
            \o findall(suffix, n, read,
                       pos + (IF Len(suffix) + n = 0 THEN 1 ELSE Len(suffix) + n))
       ELSE findall(suffix, n, read, pos + 1)

\* Every group matched, read after read of the database.
RECURSIVE Matched(_, _, _)
Matched(db, suffix, n) ==
  IF db = <<>> THEN <<>>
  ELSE findall(suffix, n, Head(db), 1) \o Matched(Tail(db), suffix, n)

Occurrences(seq, x) == Cardinality({k \in 1..Len(seq) : seq[k] = x})

SeqRange(seq) == {seq[k] : k \in 1..Len(seq)}

\* Mutant of find_successors: line 179 sets the tally to 1 instead of adding.
find_successors_no_tally(db, suffix, successor_length) ==
  LET m == Matched(db, suffix, successor_length)
  IN  [succ \in SeqRange(m) |-> 1]

\* The dict successors: each matched group with the number of its matches.
find_successors(db, suffix, successor_length) ==
  LET m == Matched(db, suffix, successor_length)
  IN  [succ \in SeqRange(m) |-> Occurrences(m, succ)]

\* ---------------------------------------------------- ranking, line 223
\* A comparison that breaks ties of the count towards the smaller string.
PairLessAscendingTie(p, q) ==
  p[1] < q[1] \/ (p[1] = q[1] /\ StrLess(q[2], p[2]))

\* (y, x) < (y2, x2) on Python tuples of a count and a str.
PairLess(p, q) == p[1] < q[1] \/ (p[1] = q[1] /\ StrLess(p[2], q[2]))

\* sorted(pairs)[::-1]: the pairs, greatest first.
RECURSIVE SortedDesc(_)
SortedDesc(pairs) ==
  IF pairs = {} THEN <<>>
  ELSE LET top == CHOOSE p \in pairs : \A q \in pairs \ {p} : PairLess(q, p)
       IN  <<top>> \o SortedDesc(pairs \ {top})

Ranked(table) == SortedDesc({<<table[x], x>> : x \in DOMAIN table})

RECURSIVE SumCounts(_)
SumCounts(successors) ==
  IF successors = <<>> THEN 0
  ELSE Head(successors)[1] + SumCounts(Tail(successors))

\* a/total >= threshold, the threshold a decimal num/den of the config. Both
\* sides are correctly rounded doubles of rationals with small denominators,
\* so the comparison of the rationals decides it.
ShareAtLeast(a, total, threshold) == a * threshold.den >= threshold.num * total

\* A variant that returns the successor ranked last.
definitive_successor_lowest(successors, threshold, total_minimum) ==
  IF Len(successors) = 0 THEN None
  ELSE LET total == SumCounts(successors)
       IN  IF total < total_minimum THEN None
           ELSE IF ShareAtLeast(successors[1][1], total, threshold)
                THEN Some(successors[Len(successors)][2])
                ELSE None

\* definitive_successor, lines 225-233.
definitive_successor(successors, threshold, total_minimum) ==
  IF Len(successors) = 0 THEN None
  ELSE LET total == SumCounts(successors)
       IN  IF total < total_minimum THEN None
           ELSE IF ShareAtLeast(successors[1][1], total, threshold)
                THEN Some(successors[1][2])
                ELSE None

\* branching_successors, lines 245-250.
branching_successors(successors, threshold, total_minimum, max_count) ==
  IF Len(successors) = 0 THEN None
  ELSE LET total == SumCounts(successors)
           keep(p) == ShareAtLeast(p[1], total, threshold)
           sel == SelectSeq(successors, keep)
       IN  IF total < total_minimum THEN None
           ELSE Some([k \in 1..(IF max_count < Len(sel) THEN max_count ELSE Len(sel))
                        |-> sel[k][2]])

\* ------------------------------------- Supercontigs.is_overlapping_contig
\* self.op.match(s): '([ACGT]{min,max})#\1' matched at the start of s.
op_match(s, overlapping_min, overlapping_max) ==
  \E L \in overlapping_min..overlapping_max :
     /\ 2 * L + 1 <= Len(s)
     /\ \A k \in 1..L : s[k] \in ACGT
     /\ s[L + 1] = "#"
     /\ \A k \in 1..L : s[L + 1 + k] = s[k]

\* Mutant of is_overlapping_contig: line 146 indented into the loop, so only
\* the first supercontig is tried.
is_overlapping_first_only(arr, hp, cfg, content) ==
  /\ Len(arr) > 0
  /\ Len(arr[1].content) > 0
  /\ op_match(content \o <<"#">> \o hp[arr[1].content[1]].content,
              cfg.overlapping_min, cfg.overlapping_max)

\* Lines 141-146: some supercontig with a non-empty content list whose first
\* contig makes content + '#' + head match.
is_overlapping_contig(arr, hp, cfg, content) ==
  \E k \in 1..Len(arr) :
     /\ Len(arr[k].content) > 0
     /\ op_match(content \o <<"#">> \o hp[arr[k].content[1]].content,
                 cfg.overlapping_min, cfg.overlapping_max)

\* ------------------------------------------------------------- bounds
\* max_contig_amount ranges over 1..MaxAmount.
MaxAmount == 3
\* max_contig_length ranges over 2..MaxContigLength.
MaxContigLength == 3
\* Enhancer.start is called at most MaxRuns times on one Enhancer.
MaxRuns == 2

\* Reads of the successor queries have at most MaxReadLength characters.
MaxReadLength == 4
\* Query suffixes have at most MaxSuffixLength characters.
MaxSuffixLength == 2
\* successor_length of a query ranges over 0..MaxWindow.
MaxWindow == 2
\* Contigs given to the loop-closure test have at most MaxContentLength
\* characters.
MaxContentLength == 3
\* overlapping_max of the loop-closure test ranges over 2..MaxOverlap.
MaxOverlap == 3

\* ------------------------------------------------------------- inputs
Str1(a) == <<a>>
Str2(a, b) == <<a, b>>
Str3(a, b, c) == <<a, b, c>>

\* Read databases as Searcher.read_database leaves them (a list of str).
\* The header line of the first read makes the first entry the empty string.
Databases ==
  { <<<<>>, Str3("A","C","G"), Str3("A","C","T")>>,
    <<<<>>, Str3("A","C","G")>>,
    <<<<>>, Str3("A","C","g"), Str3("a","c","G"), <<"A","C","G","T","C","T">> >>,
    <<<<>>, Str3("A","A","A"), Str3("C","A","C")>> }

\* Supercontig files as Supercontigs.read parses them: per supercontig its
\* status line (OPEN without one) and its non-empty contigs.
Files ==
  { << [status |-> OPEN, content |-> <<Str2("A","C")>>] >>,
    << [status |-> OPEN, content |-> <<Str2("A","C"), Str2("G","G")>>] >>,
    << [status |-> OPEN, content |-> <<Str1("C"), Str2("A","C"), Str2("A","C")>>] >>,
    << [status |-> CLOSED, content |-> <<Str3("A","C","G")>>],
       [status |-> OPEN, content |-> <<Str3("A","C","G"), Str2("A","C")>>] >>,
    << [status |-> OPEN, content |-> <<Str2("a","c")>>],
       [status |-> "draft", content |-> <<Str1("A")>>],
       [status |-> OPEN, content |-> <<Str1("A")>>] >> }

\* The ENHANCER and SUPERCONFIGS sections of the configuration. The two
\* thresholds are those of defaultConfig (lines 30 and 32).
Configs ==
  [ max_contig_length : 2..MaxContigLength,
    max_suffix_length : {2},
    min_suffix_length : {1},
    suffix_length_step : {1, 2},
    successor_length : {1},
    definitive_successor_threshold : {[num |-> 95, den |-> 100],
                                      [num |-> 50, den |-> 100]},
    definitive_successor_total_min : {1},
    branching_successor_threshold : {[num |-> 30, den |-> 100]},
    branching_successor_max_count : {3},
    branching_successor_total_min : {1, 3},
    max_contig_amount : 1..MaxAmount,
    overlapping_min : {2},
    overlapping_max : {3} ]

\* ------------------------------------------------------------- state
VARIABLES
  database,            \* Searcher.database
  config,              \* the configuration sections
  heap,                \* contig objects: id -> [status, content]
  array,               \* Supercontigs.array: [status, content: ids]
  isStopped,           \* the global stop flag, line 9
  pc,                  \* where Enhancer.start stands
  run,                 \* calls of Enhancer.start so far
  i,                   \* the supercontig index of line 190 (from 1)
  stack,               \* line 196
  total_contig_count,  \* line 199
  contig,              \* line 203: the id the name contig refers to
  suffix_length,       \* line 216
  enhanced,            \* line 215
  hist                 \* history: what the last step did, and snapshots

vars == <<database, config, heap, array, isStopped, pc, run, i, stack,
          total_contig_count, contig, suffix_length, enhanced, hist>>

\* ---------------------------------------------------- Supercontigs.read
RECURSIVE Flatten(_)
Flatten(file) ==
  IF file = <<>> THEN <<>>
  ELSE Head(file).content \o Flatten(Tail(file))

RECURSIVE Before(_, _)
Before(file, k) ==
  IF k = 1 THEN 0 ELSE Len(file[k - 1].content) + Before(file, k - 1)

\* Lines 120-122: every contig becomes an object with status OPEN.
ReadHeap(file) ==
  LET flat == Flatten(file)
  IN  [id \in 1..Len(flat) |-> [status |-> OPEN, content |-> flat[id]]]

ReadArray(file) ==
  [k \in 1..Len(file) |->
     [status |-> file[k].status,
      content |-> [j \in 1..Len(file[k].content) |-> Before(file, k) + j]]]

\* ------------------------------------------------------------- Init
\* The state main() builds before enhancer.start(): lines 285-296.
Init ==
  /\ database \in Databases
  /\ config \in Configs
  /\ \E file \in Files : heap = ReadHeap(file) /\ array = ReadArray(file)
  /\ isStopped = FALSE
  /\ pc = "idle"
  /\ run = 0
  /\ i = 1
  /\ stack = <<>>
  /\ total_contig_count = 0
  /\ contig = 0
  /\ suffix_length = 0
  /\ enhanced = FALSE
  /\ hist = [ev |-> "init", queries |-> 0, array0 |-> array, heap0 |-> heap,
             queries0 |-> 0, closing |-> FALSE, branched |-> FALSE,
             snap |-> <<>>, count_before |-> 0, seen |-> <<>>,
             parent |-> [id \in DOMAIN heap |-> 0],
             len0 |-> [id \in DOMAIN heap |-> Len(heap[id].content)],
             tried |-> <<>>, successors |-> <<>>, content0 |-> <<>>,
             stack0 |-> <<>>, total0 |-> 0, pre |-> <<>>, cands |-> <<>>,
             pushed |-> <<>>, replaced |-> {}, finorder |-> <<>>]

\* ------------------------------------------------------- small helpers
Last(seq) == seq[Len(seq)]
Front(seq) == SubSeq(seq, 1, Len(seq) - 1)
Min(a, b) == IF a < b THEN a ELSE b
Max(a, b) == IF a < b THEN b ELSE a

\* ------------------------------------------------------------- actions
\* signalHandler, lines 278-281: SIGINT sets the flag, at any moment.
signalHandler ==
  /\ ~isStopped
  /\ pc # "error"
  /\ isStopped' = TRUE
  /\ UNCHANGED <<database, config, heap, array, pc, run, i, stack,
                 total_contig_count, contig, suffix_length, enhanced, hist>>

\* enhancer.start() is called, line 298 (line 189).
Start ==
  /\ pc = "idle"
  /\ run < MaxRuns
  /\ pc' = "for_i"
  /\ run' = run + 1
  /\ i' = 1
  /\ hist' = [hist EXCEPT !.ev = "start", !.array0 = array, !.heap0 = heap,
                          !.queries0 = hist.queries, !.seen = <<>>,
                          !.branched = FALSE]
  /\ UNCHANGED <<database, config, heap, array, isStopped, stack,
                 total_contig_count, contig, suffix_length, enhanced>>

\* Mutant of IsSkipped: line 193 missing, every supercontig is processed.
IsSkippedNever(supercontig) == FALSE

\* Line 193: the supercontig is processed only with status OPEN.
IsSkipped(supercontig) == supercontig.status # OPEN

\* Mutant of StackOf: line 196 without its filter, every contig is stacked.
StackOfAll(hp, content) == content

\* A variant of KeptOf without the filter of line 197: the whole content
\* is kept.
KeptOfAll(hp, content) == content

\* Line 196.
StackOf(hp, content) == SelectSeq(content, LAMBDA id : hp[id].status = OPEN)
\* Line 197.
KeptOf(hp, content) == SelectSeq(content, LAMBDA id : hp[id].status # OPEN)

\* Lines 190-199: one pass of the for loop over the supercontigs up to the
\* while loop: return (end of range, or the flag is set), continue, or the
\* partition of the content into the stack and the finalized contigs.
ForSupercontig ==
  /\ pc = "for_i"
  /\ IF i > Len(array) \/ isStopped
     THEN /\ pc' = "idle"
          /\ hist' = [hist EXCEPT !.ev = "return",
                        !.seen = IF isStopped /\ hist.seen = <<>>
                                 THEN <<[stack |-> <<>>, content |-> <<>>,
                                         heap |-> heap, queries |-> hist.queries]>>
                                 ELSE hist.seen]
          /\ UNCHANGED <<array, i, stack, total_contig_count>>
     ELSE IF IsSkipped(array[i])
     THEN /\ i' = i + 1
          /\ hist' = [hist EXCEPT !.ev = "skip"]
          /\ UNCHANGED <<array, pc, stack, total_contig_count>>
     ELSE /\ stack' = StackOf(heap, array[i].content)
          /\ array' = [array EXCEPT ![i].content = KeptOf(heap, array[i].content)]
          /\ total_contig_count' = Len(stack') + Len(array'[i].content)
          /\ pc' = "while"
          /\ hist' = [hist EXCEPT !.ev = "partition", !.seen = <<>>,
                                  !.branched = FALSE,
                                  !.pushed = stack', !.replaced = {},
                                  !.finorder = <<>>]
          /\ UNCHANGED i
  /\ UNCHANGED <<database, config, heap, isStopped, run, contig,
                 suffix_length, enhanced>>

\* A variant of InspectedStatus whose length test is late by one character.
InspectedStatusLate(status, closing, length, max_contig_length) ==
  LET after204 == IF closing THEN OVERLAPPING ELSE status
  IN  IF length > max_contig_length + 1 THEN TOO_LONG ELSE after204

\* Lines 204-208: the status of the inspected contig after the two tests.
InspectedStatus(status, closing, length, max_contig_length) ==
  LET after204 == IF closing THEN OVERLAPPING ELSE status
  IN  IF length > max_contig_length THEN TOO_LONG ELSE after204

\* Mutant of Flushed: line 274 missing, what is left on the stack is dropped.
FlushedDropped(content, stk) == content

\* Line 274: what is left on the stack goes behind the finalized contigs.
Flushed(content, stk) == content \o stk

\* Lines 201-215 and 274: one pass of the while loop up to the for loop over
\* the suffix lengths. The loop ends on an empty stack or on the flag.
While ==
  /\ pc = "while"
  /\ IF Len(stack) = 0 \/ isStopped
     THEN /\ array' = [array EXCEPT ![i].content = Flushed(array[i].content, stack)]
          /\ i' = i + 1
          /\ pc' = "for_i"
          /\ hist' = [hist EXCEPT !.ev = "flush",
                        !.seen = IF isStopped /\ hist.seen = <<>>
                                 THEN <<[stack |-> stack,
                                         content |-> array[i].content,
                                         heap |-> heap, queries |-> hist.queries]>>
                                 ELSE hist.seen]
          /\ UNCHANGED <<heap, contig, suffix_length, enhanced, stack>>
     ELSE LET top == Last(stack)
              closing == is_overlapping_contig(array, heap, config,
                                               heap[top].content)
              status == InspectedStatus(heap[top].status, closing,
                                        Len(heap[top].content),
                                        config.max_contig_length)
          IN  /\ contig' = top
              /\ heap' = [heap EXCEPT ![top].status = status]
              /\ IF status # OPEN
                 THEN /\ stack' = Front(stack)
                      /\ array' = [array EXCEPT ![i].content = Append(@, top)]
                      /\ hist' = [hist EXCEPT !.ev = "finalize",
                                              !.closing = closing,
                                              !.finorder = Append(@, top)]
                      /\ UNCHANGED <<pc, suffix_length, enhanced>>
                 ELSE /\ enhanced' = FALSE
                      /\ suffix_length' = config.max_suffix_length
                      /\ pc' = "for_suffix"
                      /\ hist' = [hist EXCEPT !.ev = "inspect",
                                              !.closing = closing,
                                              !.branched = FALSE,
                                              !.tried = <<>>,
                                              !.content0 = heap[top].content,
                                              !.stack0 = stack,
                                              !.total0 = total_contig_count]
                      /\ UNCHANGED <<stack, array>>
              /\ UNCHANGED i
  /\ UNCHANGED <<database, config, isStopped, run, total_contig_count>>

\* Mutant of Pushed: line 264 missing, every candidate is pushed.
PushedNoBudget(candidates, total, max_contig_amount) == Len(candidates)

\* The number of children lines 263-268 push: one per candidate while
\* total_contig_count < max_contig_amount.
Pushed(candidates, total, max_contig_amount) ==
  Min(Len(candidates), Max(0, max_contig_amount - total))

\* Lines 265-266: copy.deepcopy(contig) with the successor appended.
Child(original, successor) ==
  [status |-> original.status, content |-> original.content \o successor]

\* Lines 216-268: one pass of the for loop over the suffix lengths. The range
\* is exhausted below min_suffix_length; the flag breaks the loop; a
\* definitive successor is appended and breaks the loop; branching pops the
\* stack and pushes the children, and the loop goes on.
ForSuffix ==
  /\ pc = "for_suffix"
  /\ IF suffix_length < config.min_suffix_length \/ isStopped
     THEN /\ pc' = "after_for"
          /\ hist' = [hist EXCEPT !.ev = "for_end",
                        !.seen = IF isStopped /\ hist.seen = <<>>
                                 THEN <<[stack |-> stack,
                                         content |-> array[i].content,
                                         heap |-> heap, queries |-> hist.queries]>>
                                 ELSE hist.seen]
          /\ UNCHANGED <<heap, stack, total_contig_count, suffix_length, enhanced>>
     ELSE LET table == find_successors(database,
                         Slice(heap[contig].content, suffix_length),
                         config.successor_length)
              successors == Ranked(table)
              candidate == definitive_successor(successors,
                             config.definitive_successor_threshold,
                             config.definitive_successor_total_min)
              branching_candidates == branching_successors(successors,
                             config.branching_successor_threshold,
                             config.branching_successor_total_min,
                             config.branching_successor_max_count)
              h == [hist EXCEPT !.queries = @ + 1,
                                !.tried = Append(@, suffix_length),
                                !.successors = successors]
          IN  IF ~candidate.none
              THEN /\ heap' = [heap EXCEPT ![contig].content = @ \o candidate.value]
                   /\ enhanced' = TRUE
                   /\ pc' = "after_for"
                   /\ hist' = [h EXCEPT !.ev = "definitive"]
                   /\ UNCHANGED <<stack, total_contig_count, suffix_length>>
              ELSE IF ~branching_candidates.none /\ Len(branching_candidates.value) > 1
              THEN IF Len(stack) = 0
                   THEN \* line 261: pop from empty list raises IndexError
                        /\ enhanced' = TRUE
                        /\ pc' = "error"
                        /\ hist' = [h EXCEPT !.ev = "IndexError",
                                      !.pre = [stack |-> stack,
                                               total |-> total_contig_count,
                                               heap |-> heap],
                                      !.cands = branching_candidates.value]
                        /\ UNCHANGED <<heap, stack, total_contig_count, suffix_length>>
                   ELSE LET n == Pushed(branching_candidates.value,
                                        total_contig_count - 1,
                                        config.max_contig_amount)
                            base == Len(heap)
                        IN  /\ enhanced' = TRUE
                            /\ heap' = heap \o
                                 [k \in 1..n |->
                                    Child(heap[contig], branching_candidates.value[k])]
                            /\ stack' = Front(stack) \o [k \in 1..n |-> base + k]
                            /\ total_contig_count' = total_contig_count - 1 + n
                            /\ suffix_length' = suffix_length - config.suffix_length_step
                            /\ hist' = [h EXCEPT !.ev = "branch",
                                          !.branched = TRUE,
                                          !.count_before = Len(stack) + Len(array[i].content),
                                          !.pre = [stack |-> stack,
                                                   total |-> total_contig_count,
                                                   heap |-> heap],
                                          !.cands = branching_candidates.value,
                                          !.pushed = @ \o [k \in 1..n |-> base + k],
                                          !.replaced = IF Last(stack) = contig
                                                       THEN @ \cup {contig} ELSE @,
                                          !.snap = IF hist.branched THEN @
                                                   ELSE [stack |-> stack',
                                                         total |-> total_contig_count',
                                                         content |-> array[i].content],
                                          !.parent = @ \o [k \in 1..n |-> contig]]
                            /\ UNCHANGED pc
              ELSE /\ suffix_length' = suffix_length - config.suffix_length_step
                   /\ hist' = [h EXCEPT !.ev = "no_result"]
                   /\ UNCHANGED <<heap, stack, total_contig_count, enhanced, pc>>
  /\ UNCHANGED <<database, config, array, isStopped, run, i, contig>>

\* Lines 271-273: a contig that was not enhanced in this round is STUCK.
AfterFor ==
  /\ pc = "after_for"
  /\ heap' = IF ~enhanced THEN [heap EXCEPT ![contig].status = STUCK] ELSE heap
  /\ pc' = "while"
  /\ hist' = [hist EXCEPT !.ev = IF ~enhanced THEN "stuck" ELSE "round_end"]
  /\ UNCHANGED <<database, config, array, isStopped, run, i, stack,
                 total_contig_count, contig, suffix_length, enhanced>>

Next ==
  \/ signalHandler
  \/ Start
  \/ ForSupercontig
  \/ While
  \/ ForSuffix
  \/ AfterFor

Spec == Init /\ [][Next]_vars

\* =============================================================== claims
\* The contigs tracked for the supercontig in work: stack plus finalized.
Tracked == Len(stack) + Len(array[i].content)

\* C1 (as claimed): after every branching step the number of contigs tracked
\* for the supercontig is at most max_contig_amount.
C1_BudgetAsClaimed ==
  hist.ev = "branch" => Tracked <= config.max_contig_amount

\* C1 (amended): after every branching step the number of contigs tracked is
\* total_contig_count and is at most the larger of max_contig_amount and one
\* less than the number tracked before the step.
C1_Budget ==
  hist.ev = "branch" =>
     /\ Tracked = total_contig_count
     /\ Tracked <= Max(config.max_contig_amount, hist.count_before - 1)

\* A branching step that hit the budget: the supercontig was full and it is
\* full again though a candidate was left out.
C1_Witness ==
  /\ hist.ev = "branch"
  /\ hist.count_before = config.max_contig_amount
  /\ Tracked = config.max_contig_amount
  /\ Len(stack) > 0

RECURSIVE DescendsFrom(_, _)
\* Contig d is a branch copy of a, or of a copy of a, ...
DescendsFrom(d, a) ==
  /\ d # 0
  /\ (hist.parent[d] = a \/ DescendsFrom(hist.parent[d], a))

\* C2 (as claimed): when the work on a supercontig ends, each contig it held
\* at the call is in its content exactly once or has a branch descendant
\* there that begins with its content of then; no contig is there twice.
C2_Conservation ==
  hist.ev = "flush" =>
    LET now == array[i - 1].content
    IN  /\ \A id \in SeqRange(hist.array0[i - 1].content) :
             \/ Occurrences(now, id) = 1
             \/ \E k \in 1..Len(now) :
                  /\ DescendsFrom(now[k], id)
                  /\ Prefix(heap[now[k]].content, Len(hist.heap0[id].content))
                       = hist.heap0[id].content
        /\ \A k \in 1..Len(now) : Occurrences(now, now[k]) = 1

\* C3: once the flag is observed (line 202 or 219), the content of the
\* supercontig in work ends as the contigs then finalized followed by the
\* contigs then on the stack, each exactly once.
C3_StopKeepsStack ==
  (hist.ev = "flush" /\ hist.seen # <<>>) =>
    LET now == array[i - 1].content
        then == hist.seen[1]
    IN  /\ \A id \in SeqRange(then.stack) \cup SeqRange(then.content) :
             Occurrences(now, id) = 1
        /\ Len(now) = Len(then.stack) + Len(then.content)

\* The flag was observed with two contigs on the stack and one finalized.
C3_Witness ==
  /\ hist.ev = "flush"
  /\ hist.seen # <<>>
  /\ Len(hist.seen[1].stack) >= 2
  /\ Len(hist.seen[1].content) >= 1
  /\ \E id \in SeqRange(hist.seen[1].stack) : heap[id].status = STUCK

\* C4 (as claimed): an inspected contig that passes the loop-closure test is
\* finalized with status OVERLAPPING, and no suffix loop is entered for it.
C4_LoopClosureFirst ==
  (hist.ev \in {"finalize", "inspect"} /\ hist.closing) =>
     (hist.ev = "finalize" /\ heap[contig].status = OVERLAPPING)

C6_NeverRaises == pc # "error"

\* ================================================ Searcher.find_successors
\* The strings over an alphabet with lo..hi characters.
Strings(alphabet, lo, hi) == UNION {[1..n -> alphabet] : n \in lo..hi}

FindAlphabet == {"A", "a", "C"}

\* Databases of one or two reads behind the empty first entry.
FindDatabases ==
  LET reads == Strings(FindAlphabet, 1, MaxReadLength)
  IN  {<<<<>>, r>> : r \in reads} \cup {<<<<>>, r, Str3("A","A","C")>> : r \in reads}

InitFind ==
  /\ database \in FindDatabases
  /\ config = CHOOSE c \in Configs : TRUE
  /\ heap = <<>>
  /\ array = <<>>
  /\ isStopped = FALSE
  /\ pc = "searcher"
  /\ run = 0
  /\ i = 1
  /\ stack = <<>>
  /\ total_contig_count = 0
  /\ contig = 0
  /\ suffix_length = 0
  /\ enhanced = FALSE
  /\ hist = [ev |-> "init"]

\* The call of searcher.find_successors(suffix, successor_length).
FindSuccessors ==
  /\ pc = "searcher"
  /\ hist.ev = "init"
  /\ \E suffix \in Strings(FindAlphabet, 1, MaxSuffixLength), n \in 0..MaxWindow :
       hist' = [ev |-> "find_successors", suffix |-> suffix,
                successor_length |-> n,
                successors |-> find_successors(database, suffix, n)]
  /\ UNCHANGED <<database, config, heap, array, isStopped, pc, run, i, stack,
                 total_contig_count, contig, suffix_length, enhanced>>

NextFind == FindSuccessors

SpecFind == InitFind /\ [][NextFind]_vars

RECURSIVE TableSum(_)
\* The sum of the counts of a successor table.
TableSum(table) ==
  IF DOMAIN table = {} THEN 0
  ELSE LET x == CHOOSE y \in DOMAIN table : TRUE
       IN  table[x] + TableSum([y \in DOMAIN table \ {x} |-> table[y]])

\* suffix occurs in read at pos, letter case ignored.
OccursAt(suffix, read, pos) ==
  /\ pos + Len(suffix) - 1 <= Len(read)
  /\ \A k \in 1..Len(suffix) : Upper(read[pos + k - 1]) = Upper(suffix[k])

RECURSIVE LiteralCount(_, _, _)
\* The non-overlapping occurrences of suffix in read from pos on, counted
\* from the left.
LiteralCount(suffix, read, pos) ==
  IF pos + Len(suffix) - 1 > Len(read) THEN 0
  ELSE IF OccursAt(suffix, read, pos)
       THEN 1 + LiteralCount(suffix, read, pos + Len(suffix))
       ELSE LiteralCount(suffix, read, pos + 1)

RECURSIVE WindowedCount(_, _, _, _)
\* The occurrences of suffix in read from pos on that have n more characters
\* behind them in the read, counted from the left, none starting before the
\* n characters behind the one before it have ended.
WindowedCount(suffix, n, read, pos) ==
  IF pos + Len(suffix) + n - 1 > Len(read) THEN 0
  ELSE IF OccursAt(suffix, read, pos)
       THEN 1 + WindowedCount(suffix, n, read, pos + Len(suffix) + n)
       ELSE WindowedCount(suffix, n, read, pos + 1)

RECURSIVE LiteralTotal(_, _)
\* LiteralCount summed over the reads of db.
LiteralTotal(db, suffix) ==
  IF db = <<>> THEN 0
  ELSE LiteralCount(suffix, Head(db), 1) + LiteralTotal(Tail(db), suffix)

RECURSIVE WindowedTotal(_, _, _)
\* WindowedCount summed over the reads of db.
WindowedTotal(db, suffix, n) ==
  IF db = <<>> THEN 0
  ELSE WindowedCount(suffix, n, Head(db), 1) + WindowedTotal(Tail(db), suffix, n)

OverlapAlphabet == {"A", "C", "a", "#"}

OverlapFiles ==
  { << [status |-> OPEN, content |-> <<Str3("A","C","A"), Str2("C","C")>>],
       [status |-> CLOSED, content |-> <<Str2("a","C")>>] >>,
    << [status |-> OPEN, content |-> <<Str1("C")>>],
       [status |-> "draft", content |-> <<Str3("C","A","C"), Str3("A","A","A")>>] >>,
    << [status |-> OPEN, content |-> <<Str2("a","c")>>],
       [status |-> OPEN, content |-> <<Str3("A","C","C")>>] >> }

InitOverlap ==
  /\ database = <<>>
  /\ \E lo \in 1..2, hi \in 2..MaxOverlap :
       config = [(CHOOSE c \in Configs : TRUE)
                   EXCEPT !.overlapping_min = lo, !.overlapping_max = hi]
  /\ \E file \in OverlapFiles : heap = ReadHeap(file) /\ array = ReadArray(file)
  /\ isStopped = FALSE
  /\ pc = "supercontigs"
  /\ run = 0
  /\ i = 1
  /\ stack = <<>>
  /\ total_contig_count = 0
  /\ contig = 0
  /\ suffix_length = 0
  /\ enhanced = FALSE
  /\ hist = [ev |-> "init"]

\* Lines 196-197 on the first supercontig: its OPEN contigs leave the content
\* list, which is the state the engine calls the test in.
Partition ==
  /\ pc = "supercontigs"
  /\ hist.ev = "init"
  /\ stack = <<>>
  /\ stack' = StackOf(heap, array[1].content)
  /\ array' = [array EXCEPT ![1].content = KeptOf(heap, array[1].content)]
  /\ UNCHANGED <<database, config, heap, isStopped, pc, run, i,
                 total_contig_count, contig, suffix_length, enhanced, hist>>

\* The call of supercontigs.is_overlapping_contig(contig).
IsOverlapping ==
  /\ pc = "supercontigs"
  /\ hist.ev = "init"
  /\ \E content \in Strings(OverlapAlphabet, 0, MaxContentLength) :
       hist' = [ev |-> "is_overlapping_contig", content |-> content,
                result |-> is_overlapping_contig(array, heap, config, content)]
  /\ UNCHANGED <<database, config, heap, array, isStopped, pc, run, i, stack,
                 total_contig_count, contig, suffix_length, enhanced>>

NextOverlap == Partition \/ IsOverlapping

SpecOverlap == InitOverlap /\ [][NextOverlap]_vars

\* content is, character for character, the beginning of the first contig of
\* supercontig k.
EqualsHead(content, k) ==
  /\ Len(array[k].content) > 0
  /\ Len(heap[array[k].content[1]].content) >= Len(content)
  /\ Prefix(heap[array[k].content[1]].content, Len(content)) = content

\* The condition of the claim: the length within the bounds and the content
\* the beginning of the head of some supercontig.
ClosesLoop(content) ==
  /\ Len(content) >= config.overlapping_min
  /\ Len(content) <= config.overlapping_max
  /\ \E k \in 1..Len(array) : EqualsHead(content, k)

C8_WitnessLowerCase ==
  /\ hist.ev = "is_overlapping_contig"
  /\ ~hist.result
  /\ ClosesLoop(hist.content)
  /\ "#" \notin SeqRange(hist.content)

\* ================================================= Enhancer.start, again
\* No contig of the collection had status OPEN when start was called.
NoOpenAtCall ==
  \A k \in 1..Len(hist.array0) :
     \A id \in SeqRange(hist.array0[k].content) : hist.heap0[id].status # OPEN

\* C9: a call of start on a collection without OPEN contigs changes no
\* supercontig and no contig, and queries no successors, at any point of the
\* call and after it.
C9_Idempotent ==
  (run >= 1 /\ NoOpenAtCall) =>
     /\ array = hist.array0
     /\ heap = hist.heap0
     /\ hist.queries = hist.queries0
     /\ pc # "error"

\* A call ran to its end on a collection that an earlier call had finalized:
\* an OPEN supercontig with two contigs of different statuses.
C9_Witness ==
  /\ run = 2
  /\ pc = "idle"
  /\ hist.ev = "return"
  /\ ~isStopped
  /\ NoOpenAtCall
  /\ \E k \in 1..Len(array) :
       /\ array[k].status = OPEN
       /\ Len(array[k].content) >= 2
       /\ heap[array[k].content[1]].status # heap[array[k].content[2]].status

\* The contigs of supercontig k are as they were when start was called.
SameAsAtCall(k) ==
  /\ array[k] = hist.array0[k]
  /\ \A id \in SeqRange(array[k].content) : heap[id] = hist.heap0[id]

\* C10: during and after a call of start every supercontig has the status it
\* had at the call and a supercontig whose status is not OPEN has the contigs
\* it had, unchanged; and no step changes the content list, or a contig, of a
\* supercontig other than the one in work (index i).
C10_Frame ==
  /\ [](run >= 1 =>
          /\ Len(array) = Len(hist.array0)
          /\ \A k \in 1..Len(array) :
               /\ array[k].status = hist.array0[k].status
               /\ hist.array0[k].status # OPEN => SameAsAtCall(k))
  /\ [][\A k \in 1..Len(array) :
          k # i =>
            /\ array'[k] = array[k]
            /\ \A id \in SeqRange(array[k].content) : heap'[id] = heap[id]]_vars

\* A call ran to its end: it changed a contig of one supercontig and passed
\* over a supercontig with another status, whose contig is still OPEN.
C10_Witness ==
  /\ run = 1
  /\ pc = "idle"
  /\ hist.ev = "return"
  /\ ~isStopped
  /\ \E k \in 1..Len(array) :
       /\ array[k].status \notin {OPEN, CLOSED}
       /\ heap[array[k].content[1]].status = OPEN
  /\ \E k \in 1..Len(array) :
       /\ array[k].status = OPEN
       /\ \E id \in SeqRange(array[k].content) : heap[id].status # OPEN

\* ============================================== ranking of a successor table
MaxCount == 2

RankAlphabet == {"A", "C", "a"}

\* The tables find_successors can return: up to three successors of one
\* length, each with a positive count.
RankTables ==
  UNION { UNION { [ {a, b, c} -> 1..MaxCount ] :
                    a \in [1..n -> RankAlphabet],
                    b \in [1..n -> RankAlphabet],
                    c \in [1..n -> RankAlphabet] } : n \in 1..MaxWindow }

InitRank ==
  /\ database = <<>>
  /\ config = CHOOSE c \in Configs : TRUE
  /\ heap = <<>>
  /\ array = <<>>
  /\ isStopped = FALSE
  /\ pc = "ranking"
  /\ run = 0
  /\ i = 1
  /\ stack = <<>>
  /\ total_contig_count = 0
  /\ contig = 0
  /\ suffix_length = 0
  /\ enhanced = FALSE
  /\ \E table \in RankTables : hist = [ev |-> "init", table |-> table]

\* Line 223: successors = sorted([(y, x) for (x, y) in successors.items()])[::-1]
Rank ==
  /\ pc = "ranking"
  /\ hist.ev = "init"
  /\ hist' = [ev |-> "ranked", table |-> hist.table,
              successors |-> Ranked(hist.table)]
  /\ UNCHANGED <<database, config, heap, array, isStopped, pc, run, i, stack,
                 total_contig_count, contig, suffix_length, enhanced>>

NextRank == Rank

SpecRank == InitRank /\ [][NextRank]_vars

\* a > b on strings: at the first position where they differ a has the
\* greater code point, or b is a proper prefix of a.
LexGreater(a, b) ==
  \E k \in 1..Len(a) :
     /\ \A j \in 1..(k-1) : j <= Len(b) /\ a[j] = b[j]
     /\ (k > Len(b) \/ (k - 1 < Len(b) /\ Ord(a[k]) > Ord(b[k])))

\* C11: the ranked list holds every entry of the table exactly once, and of
\* any two entries the one with the higher count comes first, and at equal
\* counts the one with the lexicographically greater successor comes first.
C11_RankingOrder ==
  hist.ev = "ranked" =>
    LET s == hist.successors
        table == hist.table
    IN  /\ Len(s) = Cardinality(DOMAIN table)
        /\ \A x \in DOMAIN table : \E k \in 1..Len(s) : s[k] = <<table[x], x>>
        /\ \A j \in 1..Len(s), k \in 1..Len(s) :
             j < k => \/ s[j][1] > s[k][1]
                      \/ (s[j][1] = s[k][1] /\ LexGreater(s[j][2], s[k][2]))

\* A table of three entries: one with the higher count, and two with equal
\* counts of which "CC" is ranked before "AA".
C11_Witness ==
  /\ hist.ev = "ranked"
  /\ Len(hist.successors) = 3
  /\ hist.successors[1][1] > hist.successors[2][1]
  /\ hist.successors[2] = <<1, <<"C", "C">> >>
  /\ hist.successors[3] = <<1, <<"A", "A">> >>

\* ========================================= the stop flag, once observed
\* C12: after the stop flag has been observed (line 191, 202 or 219) no
\* further successor query is made, and every fragment that was OPEN at the
\* observation is still OPEN, with the same content.
C12_StopFreezes ==
  hist.seen # <<>> =>
    LET seen == hist.seen[1]
    IN  /\ hist.queries = seen.queries
        /\ \A id \in DOMAIN seen.heap :
             seen.heap[id].status = OPEN => heap[id] = seen.heap[id]

\* ================================================== the STUCK status
\* The suffix lengths of one inspection round, line 216:
\* max_suffix_length, max_suffix_length - step, ..., not below
\* min_suffix_length.
RECURSIVE SuffixLengthsFrom(_, _)
SuffixLengthsFrom(n, cfg) ==
  IF n < cfg.min_suffix_length THEN <<>>
  ELSE <<n>> \o SuffixLengthsFrom(n - cfg.suffix_length_step, cfg)

\* C13: a fragment is set STUCK only at the end of a round in which every
\* suffix length of the sequence was queried and none gave a definitive or
\* branching result; the fragment is then still the top of the stack with
\* the content it had when inspected, and the next loop iteration moves it,
\* unchanged, to the end of the supercontig's content.
C13_StuckAfterAllSuffixLengths ==
  /\ [](hist.ev = "stuck" =>
          /\ hist.tried = SuffixLengthsFrom(config.max_suffix_length, config)
          /\ ~enhanced
          /\ stack # <<>> /\ Last(stack) = contig
          /\ heap[contig].status = STUCK
          /\ heap[contig].content = hist.content0)
  /\ [][hist.ev = "stuck" /\ hist'.ev # "stuck" =>
          /\ array'[i].content # <<>>
          /\ Last(array'[i].content) = contig
          /\ heap'[contig] = heap[contig]]_vars

\* ================================================== the branching step
\* The number of children the budget admits: candidates are taken in ranked
\* order while the count is below max_contig_amount.
Admitted(candidates, total, max_contig_amount) ==
  CHOOSE n \in 0..Len(candidates) :
    /\ \A j \in 0..(n-1) : total + j < max_contig_amount
    /\ n = Len(candidates) \/ total + n >= max_contig_amount

\* C14: a branching step (at least two candidates) removes the original top
\* fragment from the stack and decrements total_contig_count; then, for each
\* candidate in ranked order while total_contig_count < max_contig_amount,
\* it pushes an independent copy of the original with the candidate
\* appended. The children lie on the stack in ranked order from bottom to
\* top, the candidates past the budget are dropped, and no child is the same
\* object as a sibling or as an older fragment.
C14_BranchingStep ==
  hist.ev \in {"branch", "IndexError"} =>
    LET pre == hist.pre
        original == pre.heap[contig]
        n == Admitted(hist.cands, pre.total - 1, config.max_contig_amount)
        rest == Len(pre.stack) - 1
    IN  /\ hist.ev = "branch"
        /\ Len(hist.cands) >= 2
        /\ pre.stack # <<>> /\ Last(pre.stack) = contig
        /\ \A k \in 1..Len(stack) : stack[k] # contig
        /\ total_contig_count = pre.total - 1 + n
        /\ Len(stack) = rest + n
        /\ SubSeq(stack, 1, rest) = SubSeq(pre.stack, 1, rest)
        /\ \A k \in 1..n :
             /\ stack[rest + k] \notin DOMAIN pre.heap
             /\ heap[stack[rest + k]] =
                  [original EXCEPT !.content = @ \o hist.cands[k]]
             /\ \A j \in 1..n : j # k => stack[rest + j] # stack[rest + k]
        /\ \A id \in DOMAIN pre.heap : heap[id] = pre.heap[id]

\* ============================================ the definitive extension
\* The sum of the counts of a ranked table.
RECURSIVE RankedTotal(_, _)
RankedTotal(s, k) == IF k = 0 THEN 0 ELSE s[k][1] + RankedTotal(s, k - 1)

\* The conditions of a definitive successor on a ranked table.
IsDefinitive(s, cfg) ==
  /\ s # <<>>
  /\ RankedTotal(s, Len(s)) >= cfg.definitive_successor_total_min
  /\ s[1][1] * cfg.definitive_successor_threshold.den
       >= cfg.definitive_successor_threshold.num * RankedTotal(s, Len(s))

\* The ranked table of the query for the suffix of the given length.
TableAt(content, n) ==
  Ranked(find_successors(database, Slice(content, n), config.successor_length))

\* C15: in a round without an earlier branching result, the definitive
\* extension happens at the longest suffix length of the sequence whose
\* table is non-empty, has a total of at least
\* definitive_successor_total_min and a top share of at least the
\* threshold; exactly the top-ranked successor is appended, the fragment
\* stays OPEN on top of the stack, the stack and total_contig_count are as
\* they were, and the round ends without a query at a shorter suffix length
\* (so at one suffix length the definitive test wins over branching). A
\* round that the stop flag does not cut short ends STUCK only if no suffix
\* length of the sequence has such a table.
C15_DefinitiveExtension ==
  /\ [](hist.ev = "definitive" /\ ~hist.branched =>
          LET s == hist.successors
              m == Len(hist.tried)
          IN  /\ IsDefinitive(s, config)
              /\ m >= 1
              /\ hist.tried =
                   SubSeq(SuffixLengthsFrom(config.max_suffix_length, config), 1, m)
              /\ s = TableAt(hist.content0, hist.tried[m])
              /\ \A k \in 1..(m-1) :
                   ~IsDefinitive(TableAt(hist.content0, hist.tried[k]), config)
              /\ heap[contig].content = hist.content0 \o s[1][2]
              /\ heap[contig].status = OPEN
              /\ stack = hist.stack0 /\ Last(stack) = contig
              /\ total_contig_count = hist.total0
              /\ pc = "after_for")
  /\ [](hist.ev = "stuck" /\ hist.seen = <<>> =>
          LET all == SuffixLengthsFrom(config.max_suffix_length, config)
          IN  \A k \in 1..Len(all) :
                ~IsDefinitive(TableAt(hist.content0, all[k]), config))
  /\ [][hist.ev = "definitive" /\ ~hist.branched /\ hist'.ev # "definitive" =>
          /\ hist'.ev = "round_end"
          /\ hist'.tried = hist.tried
          /\ heap' = heap /\ stack' = stack
          /\ total_contig_count' = total_contig_count]_vars

\* A definitive extension at the second suffix length of the round, the
\* longer one having been queried without a result.
C15_Witness ==
  /\ hist.ev = "definitive"
  /\ ~hist.branched
  /\ Len(hist.tried) = 2
  /\ heap[contig].content = hist.content0 \o hist.successors[1][2]

\* A definitive extension on a table that also holds two branching
\* candidates: the successor is appended and nothing is popped or pushed.
C15_WitnessBothTests ==
  /\ hist.ev = "definitive"
  /\ ~hist.branched
  /\ Len(hist.successors) >= 2
  /\ LET b == branching_successors(hist.successors,
                config.branching_successor_threshold,
                config.branching_successor_total_min,
                config.branching_successor_max_count)
     IN  ~b.none /\ Len(b.value) > 1
  /\ stack = hist.stack0

\* ======================================== one-way statuses and contents
Terminal == {OVERLAPPING, TOO_LONG, STUCK, CLOSED}

\* The fragments that lie in the content of some supercontig.
InContent == UNION {SeqRange(array[k].content) : k \in DOMAIN array}

Running == pc \in {"for_i", "while", "for_suffix", "after_for"}

\* Every fragment of every OPEN supercontig is finalized.
AllFinalized ==
  \A k \in DOMAIN array :
     array[k].status = OPEN =>
       \A j \in 1..Len(array[k].content) :
          heap[array[k].content[j]].status \in {OVERLAPPING, TOO_LONG, STUCK}

\* C17: while the stop flag is not set, a call of start that has not
\* returned can take its next step (it never ends otherwise than by
\* returning), and when it has returned every fragment of every OPEN
\* supercontig has the status OVERLAPPING, TOO_LONG or STUCK.
C17_ReturnsFinalized ==
  ~isStopped =>
    /\ pc # "idle" => Running
    /\ pc = "idle" /\ run >= 1 => AllFinalized

\* ================================================== depth-first order
\* The position of a fragment in the order of the pushes of the supercontig
\* in process (0 when it was never pushed).
PushIndex(id) ==
  IF \E k \in 1..Len(hist.pushed) : hist.pushed[k] = id
  THEN CHOOSE k \in 1..Len(hist.pushed) : hist.pushed[k] = id
  ELSE 0

\* The OPEN fragments of the supercontig in process are pushed in their
\* original order.
PushedInOrder ==
  hist.ev = "partition" =>
    stack = SelectSeq(hist.array0[i].content,
                      LAMBDA id : hist.heap0[id].status = OPEN)

\* When a fragment is inspected, every fragment pushed after it has been
\* finalized, or has been replaced by its children in a branching step.
InspectedLast ==
  hist.ev \in {"inspect", "finalize"} =>
    \A k \in 1..Len(hist.pushed) :
       k > PushIndex(contig) =>
         \/ \E j \in 1..Len(array[i].content) :
               array[i].content[j] = hist.pushed[k]
         \/ hist.pushed[k] \in hist.replaced

\* The content of the supercontig in process: the fragments that were not
\* OPEN at the start, in their original order, then the fragments in the
\* order in which they were finalized.
ContentInOrder ==
  pc \in {"while", "for_suffix", "after_for"} =>
    array[i].content =
      SelectSeq(hist.array0[i].content,
                LAMBDA id : hist.heap0[id].status # OPEN) \o hist.finorder

\* C18: the stack is processed depth first: the OPEN fragments are pushed
\* in original order, a fragment is inspected only after every fragment
\* pushed after it (branch children included) has been finalized, and the
\* content keeps the fragments that were not OPEN at its front, followed by
\* the fragments in the order of their finalization.
C18_DepthFirst == PushedInOrder /\ InspectedLast /\ ContentInOrder

\* ======================================================= length bound
\* The fragment of the input file a fragment descends from by branching
\* steps (itself when it is a fragment of the file).
RECURSIVE Root(_)
Root(id) == IF hist.parent[id] = 0 THEN id ELSE Root(hist.parent[id])

\* C19: a fragment that descends from a fragment of the file whose content
\* was not longer than max_contig_length (the fragment itself included) has
\* a content of at most max_contig_length + successor_length characters,
\* and when its status is TOO_LONG its content is longer than
\* max_contig_length.
C19_LengthBound ==
  \A id \in DOMAIN heap :
     hist.len0[Root(id)] <= config.max_contig_length =>
       /\ Len(heap[id].content)
            <= config.max_contig_length + config.successor_length
       /\ heap[id].status = TOO_LONG =>
            Len(heap[id].content) > config.max_contig_length

\* A branch child that was finalized TOO_LONG at the greatest length the
\* bound allows, its original having started within max_contig_length.
C19_Witness ==
  \E id \in DOMAIN heap :
     /\ hist.parent[id] # 0
     /\ hist.len0[Root(id)] <= config.max_contig_length
     /\ heap[id].status = TOO_LONG
     /\ Len(heap[id].content)
          = config.max_contig_length + config.successor_length
====
